---------------------------- MODULE Spec2Model ----------------------------
(***************************************************************************)
(* One request to POST /videos (the Express handler) and the invocation of *)
(* getSubscriptionVideos it makes: subscription enumeration, the grouped   *)
(* per-channel search fan-out, the exclusion filter, the sequential        *)
(* detail batches, formatting, sorting and truncation.                     *)
(*                                                                         *)
(* The upstream (YouTube Data API, Firestore, the OAuth refresh service)   *)
(* is the environment: every call it answers is a nondeterministic choice  *)
(* among bounded families of responses and failures.                       *)
(***************************************************************************)
EXTENDS Integers, Sequences, FiniteSets, TLC

(***************************************************************************)
(* Bounds of the explored inputs and upstream behaviours.                  *)
(***************************************************************************)
\* video ids 1..MaxVid may appear in short search responses and in excludeList
MaxVid == 2
\* small maxResults values explored are 1..MaxSmallResults
MaxSmallResults == 2
\* maxChannels values explored are 1..MaxBudget
MaxBudget == 2
\* small subscription counts explored are 0..MaxSmallSubs
MaxSmallSubs == 2
\* detail responses stamp their records with one of 1..NumSchemes schemes
NumSchemes == 3
\* number of distinct publishedAt values the schemes draw from
StampMod == 3

(***************************************************************************)
(* Program constants.                                                      *)
(***************************************************************************)
subscriptionsMaxResults == 50
batchSize == 10
detailBatchSize == 50
perChannelCap == 10
MinMaxResults == 1
MaxMaxResults == 100

Min(a, b) == IF a < b THEN a ELSE b

VideoIds == 1..MaxVid

(***************************************************************************)
(* Error messages are modelled by the set of substrings the handler        *)
(* searches for that they contain, and of the phrases that tell why the    *)
(* upstream failed.                                                        *)
(***************************************************************************)
\* messages of the errors googleapis may throw from a call: a rejected OAuth
\* grant, a message saying unauthorized, Google's answer to a rejected
\* access token ("Invalid Credentials", status 401), an exhausted quota, and
\* any other failure
UpstreamErrors ==
  {{"invalid_grant"}, {"unauthorized"}, {"Invalid Credentials"}, {"quota"}, {}}


(***************************************************************************)
(* Requests.  excludeList is used only through includes(), so a well-formed*)
(* one is modelled by the set of its elements.  maxResults is a number, or *)
(* a value that converts to NaN (the string "abc"): maxResultsIsNaN.       *)
(* publishedAfter is absent, a string that parses as a date ("valid") or   *)
(* one that does not ("invalid").                                          *)
(***************************************************************************)
ExcludeLists == {{}} \cup {{v} : v \in VideoIds}

MaxResultsValues ==
  (MinMaxResults..MaxSmallResults) \cup {perChannelCap, perChannelCap + 1}

BaseRequest ==
  [userId |-> TRUE, maxResults |-> MaxSmallResults, maxResultsIsNaN |-> FALSE,
   maxChannels |-> 1, publishedAfter |-> "absent", isArray |-> TRUE,
   excludeList |-> {}]

\* the base request with every maxResults, every excludeList, every
\* maxChannels, and with a date cutoff
ValidRequests ==
  {[BaseRequest EXCEPT !.maxResults = m] : m \in MaxResultsValues}
  \cup {[BaseRequest EXCEPT !.excludeList = x] : x \in ExcludeLists}
  \cup {[BaseRequest EXCEPT !.maxChannels = b] : b \in 1..MaxBudget}
  \cup {[BaseRequest EXCEPT !.publishedAfter = "valid"]}

MalformedRequests ==
  { [BaseRequest EXCEPT !.userId = FALSE],
    [BaseRequest EXCEPT !.maxResults = MinMaxResults - 1],
    [BaseRequest EXCEPT !.maxResults = MaxMaxResults + 1],
    [BaseRequest EXCEPT !.maxResultsIsNaN = TRUE],
    [BaseRequest EXCEPT !.publishedAfter = "invalid"],
    [BaseRequest EXCEPT !.isArray = FALSE] }

\* maxResults < 1 || maxResults > 100: both comparisons are false for NaN
OutOfRange(r) ==
  ~r.maxResultsIsNaN /\ (r.maxResults < MinMaxResults \/ r.maxResults > MaxMaxResults)

\* the four 400 checks of the handler, in order
ValidationError(r) ==
  IF ~r.userId THEN "userId"
  ELSE IF OutOfRange(r) THEN "maxResults"
  ELSE IF r.publishedAfter = "invalid" THEN "publishedAfter"
  ELSE IF ~r.isArray THEN "excludeList"
  ELSE "none"

(***************************************************************************)
(* Upstream responses.                                                     *)
(***************************************************************************)
\* subscription counts explored: the small ones, the first that can overflow
\* one detail batch, and the first that needs a second group of fetches
SubscriptionCounts ==
  (0..MaxSmallSubs) \cup {detailBatchSize \div perChannelCap + 1, batchSize + 1}

\* subscriptions.list answers: data.items missing, or a list of n subscriptions
\* whose channel ids are 1..n in the order returned
SubscriptionResponses ==
  {[hasItems |-> FALSE, items |-> <<>>]} \cup
  {[hasItems |-> TRUE, items |-> [k \in 1..n |-> k]] : n \in SubscriptionCounts}

\* a search result for a video: item.id is {kind: 'youtube#video', videoId}
Video(v) == [kind |-> "video", videoId |-> v]

\* the id of the playlist that search results which are not videos stand for;
\* it is no video id
PlaylistId == 0 - 1

\* a search result for a playlist: item.id is {kind: 'youtube#playlist',
\* playlistId}
Playlist == [kind |-> "playlist", playlistId |-> PlaylistId]

\* a full page of a channel's own videos, lim items long
Page(c, lim) == [k \in 1..lim |-> Video((c - 1) * perChannelCap + k)]

\* a response of at most lim items: none, one video that channel 1 also
\* has, that video twice, a playlist, or video 1 and a playlist
ShortLists(lim) ==
  {s \in {<<>>} \cup {<<Video(v)>> : v \in VideoIds}
          \cup {<<Video(v), Video(v)>> : v \in VideoIds}
          \cup {<<Playlist>>, <<Video(1), Playlist>>} :
     Len(s) <= lim}

\* with few subscriptions the last two channels may answer anything explored
\* and every call any way explored; with many, only the last channel may
Varied(c, n) == (n <= MaxSmallSubs /\ c >= n - 1) \/ c = n

\* search.list answers for the channel at position c of n asked for lim items
SearchResponses(c, lim, n) ==
  IF Varied(c, n) THEN ShortLists(lim) \cup {Page(c, lim)} ELSE {Page(c, lim)}

\* channels whose search.list call may fail
MayFail(c, n) == Varied(c, n)

\* the publishedAt string of a record, as an index into the RFC 3339 strings
\* "...T00:00:00Z", "...T00:00:01Z", ...
StampOf(scheme, v) == (v * scheme) % StampMod

\* new Date(publishedAt): milliseconds since the epoch
DateOf(publishedAt) == publishedAt * 1000

\* the ids of a list, each once, in order of first occurrence
Distinct(s) ==
  LET first == {k \in 1..Len(s) : \A j \in 1..(k - 1) : s[j] # s[k]}
  IN [n \in 1..Cardinality(first) |->
        s[CHOOSE k \in first : Cardinality({j \in first : j <= k}) = n]]

Record(scheme, v) == [id |-> v, publishedAt |-> StampOf(scheme, v)]

\* the value of a property that an object does not have
undefined == 0

\* videos.list answers for a batch of ids: only records of requested ids
\* (an undefined entry joins as an empty id, which has no record), one per
\* occurrence, one per distinct id, or with the first id unresolved
DetailItems(mode, scheme, batch) ==
  LET asked == SelectSeq(batch, LAMBDA v : v # undefined)
      ids == CASE mode = "each" -> asked
               [] mode = "distinct" -> Distinct(asked)
               [] OTHER -> IF asked = <<>> THEN <<>> ELSE Tail(asked)
  IN [k \in 1..Len(ids) |-> Record(scheme, ids[k])]

DetailModes == {"each", "distinct", "partial"}

\* videos.list answers for a batch when n channels were selected
DetailResponses(batch, n) ==
  {[hasItems |-> FALSE, items |-> <<>>]} \cup
  {[hasItems |-> TRUE, items |-> DetailItems(m, s, batch)] :
      m \in DetailModes, s \in IF n <= MaxSmallSubs THEN 1..NumSchemes ELSE {1}}

(***************************************************************************)
(* The pure steps of getSubscriptionVideos.                                *)
(***************************************************************************)
SliceInclusive(s, from, to) == SubSeq(s, from + 1, Min(to + 1, Len(s)))
\* Array.prototype.slice(from, to) with 0-based from and exclusive to
Slice(s, from, to) == SubSeq(s, from + 1, Min(to, Len(s)))

\* subscriptionsResponse.data.items missing or empty
NoSubscriptionsLengthOnly(r) == r.hasItems /\ Len(r.items) = 0
NoSubscriptions(r) == ~r.hasItems \/ Len(r.items) = 0

SearchLimitUncapped(maxResults) == maxResults
\* maxResults of each search.list call
SearchLimit(maxResults) == Min(maxResults, perChannelCap)

\* const options = {maxResults, publishedAfter, excludeList} of the handler
Options(r) ==
  [maxResults |-> r.maxResults, maxResultsIsNaN |-> r.maxResultsIsNaN,
   publishedAfter |-> r.publishedAfter, excludeList |-> r.excludeList]

\* const {maxResults = 25, publishedBefore, excludeList = []} = options:
\* a key that options does not have is undefined
PublishedBefore(options) ==
  IF "publishedBefore" \in DOMAIN options THEN options.publishedBefore ELSE "absent"

\* searchParams of the call for channelId; Math.min(NaN, 10) is NaN, and
\* publishedBefore is set only when it is truthy
SearchParams(channelId, options) ==
  [channelId |-> channelId,
   maxResults |-> SearchLimit(options.maxResults),
   maxResultsIsNaN |-> options.maxResultsIsNaN,
   publishedBefore |-> PublishedBefore(options)]

\* the end index slice(0, maxResults) uses: NaN converts to 0
SliceEnd(options) == IF options.maxResultsIsNaN THEN 0 ELSE options.maxResults

VideoIdOfAny(item) ==
  IF item.kind = "video" THEN item.videoId ELSE item.playlistId
\* video.id.videoId
VideoIdOf(item) ==
  IF "videoId" \in DOMAIN item THEN item.videoId ELSE undefined

\* allVideos.filter(video => !excludeList.includes(video.id.videoId))
FilterExcludedNone(videos, excludeList) == videos
FilterExcluded(videos, excludeList) ==
  SelectSeq(videos, LAMBDA v : VideoIdOf(v) \notin excludeList)

\* filteredVideos.map(video => video.id.videoId)
VideoIdsOf(videos) == [k \in 1..Len(videos) |-> VideoIdOf(videos[k])]

\* detailedVideos.map(video => ({videoId: video.id, ..., publishedAt: ...}))
Format(videos) ==
  [k \in 1..Len(videos) |->
     [videoId |-> videos[k].id, publishedAt |-> videos[k].publishedAt]]

MaxDate(videos) ==
  CHOOSE d \in {DateOf(videos[k].publishedAt) : k \in 1..Len(videos)} :
    \A k \in 1..Len(videos) : DateOf(videos[k].publishedAt) <= d

SortUnsorted(videos) == videos
RECURSIVE SortByDateDesc(_)
\* formattedVideos.sort((a, b) => new Date(b.publishedAt) - new Date(a.publishedAt)):
\* a stable sort, the most recent date first
SortByDateDesc(videos) ==
  IF videos = <<>> THEN <<>>
  ELSE LET d == MaxDate(videos)
       IN SelectSeq(videos, LAMBDA v : DateOf(v.publishedAt) = d)
          \o SortByDateDesc(SelectSeq(videos, LAMBDA v : DateOf(v.publishedAt) # d))

\* formattedVideos.slice(0, maxResults)
TruncateNone(videos, maxResults) == videos
Truncate(videos, maxResults) == Slice(videos, 0, maxResults)

AssembleTruncateFirst(detailed, maxResults) ==
  SortByDateDesc(Truncate(Format(detailed), maxResults))
\* everything after the detail loop
Assemble(detailed, maxResults) ==
  Truncate(SortByDateDesc(Format(detailed)), maxResults)


(***************************************************************************)
(* State.                                                                  *)
(***************************************************************************)
VARIABLES
  req,              \* req.body of the request
  invocation,       \* 1 for the call of getSubscriptionVideos, 2 for its repetition
  snapshot,         \* what the upstream answered to invocation 1, and its result
  userDoc,          \* the user's Firestore document as the handler will find it
  pc,               \* the await the request is suspended at
  validAccessToken, \* the credential handed to getSubscriptionVideos
  refreshCalls,     \* calls made to the OAuth refresh service
  subsCalls,        \* subscriptions.list calls made
  subscriptionsResponse, \* the state of the subscriptions.list call
  channelIds,       \* channel ids extracted from the subscriptions
  i,                \* loop index of the running loop (channels, then video ids)
  searchResults,    \* per channel position: the state of its search.list call
  searchCalls,      \* search.list calls made, in issue order
  outOfOrder,       \* a search.list call ended before one of a channel listed
                    \* earlier in its group
  allVideos,        \* search results merged from the finished groups
  videoIds,         \* ids left after the exclusion filter
  detailCalls,      \* id lists of the videos.list calls made, in issue order
  detailResults,    \* per videos.list call made: the state of the call
  detailedVideos,   \* records received from videos.list
  detailErrors,     \* videos.list failures caught and logged
  outcome,          \* what getSubscriptionVideos returned or threw
  response,         \* the HTTP response sent
  responses         \* number of HTTP responses sent

vars == <<req, invocation, snapshot, outOfOrder, userDoc, pc, validAccessToken, refreshCalls, subsCalls,
          subscriptionsResponse, channelIds, i, searchResults, searchCalls, allVideos, videoIds,
          detailCalls, detailResults, detailedVideos, detailErrors, outcome,
          response, responses>>

coreVars == <<subscriptionsResponse, channelIds, i, searchResults, searchCalls, allVideos, videoIds,
              detailCalls, detailResults, detailedVideos, detailErrors>>

\* the 5-minute buffer of ensureValidToken, in milliseconds
bufferTime == 5 * 60 * 1000

\* users/{userId}: the document does not exist, exists without
\* googleTokens.accessToken, or holds tokens whose expiryDate is expiresIn
\* milliseconds after the time of the request
MissingDoc == [exists |-> FALSE, hasTokens |-> FALSE, expiresIn |-> 0]
NoTokensDoc == [exists |-> TRUE, hasTokens |-> FALSE, expiresIn |-> 0]
TokensDoc(expiresIn) == [exists |-> TRUE, hasTokens |-> TRUE, expiresIn |-> expiresIn]

\* a token that has just expired, one exactly at the buffer, one just beyond
ExpiryOffsets == {0, bufferTime, bufferTime + 1}

FreshDoc == TokensDoc(bufferTime + 1)

UserDocs == {MissingDoc, NoTokensDoc} \cup {TokensDoc(d) : d \in ExpiryOffsets}

NoOutcome == [kind |-> "none", videos |-> <<>>, msg |-> {}, caught |-> "none"]
NoResponse == [status |-> 0, success |-> FALSE, count |-> 0, authRequired |-> FALSE]

NoSnapshot ==
  [subscriptionsResponse |-> [st |-> "none", hasItems |-> FALSE, items |-> <<>>],
   searchResults |-> <<>>, detailCalls |-> <<>>, detailResults |-> <<>>,
   outcome |-> NoOutcome]

Init ==
  /\ \/ req \in ValidRequests /\ userDoc = FreshDoc
     \/ req = BaseRequest /\ userDoc \in UserDocs
     \/ req \in MalformedRequests /\ userDoc = FreshDoc
  /\ invocation = 1
  /\ snapshot = NoSnapshot
  /\ outOfOrder = FALSE
  /\ pc = "validate"
  /\ validAccessToken = "none"
  /\ refreshCalls = 0
  /\ subsCalls = 0
  /\ subscriptionsResponse = [st |-> "none", hasItems |-> FALSE, items |-> <<>>]
  /\ channelIds = <<>>
  /\ i = 0
  /\ searchResults = <<>>
  /\ searchCalls = <<>>
  /\ allVideos = <<>>
  /\ videoIds = <<>>
  /\ detailCalls = <<>>
  /\ detailResults = <<>>
  /\ detailedVideos = <<>>
  /\ detailErrors = 0
  /\ outcome = NoOutcome
  /\ response = NoResponse
  /\ responses = 0

(***************************************************************************)
(* Responses of the handler.                                               *)
(***************************************************************************)
BadRequest == [status |-> 400, success |-> FALSE, count |-> 0, authRequired |-> FALSE]

SuccessResponseEmptyIsNotFound(videos) ==
  [status |-> IF Len(videos) = 0 THEN 404 ELSE 200, success |-> Len(videos) > 0,
   count |-> Len(videos), authRequired |-> FALSE]

\* res.json({success: true, data: {videos, count: videos.length, ...}})
SuccessResponse(videos) ==
  [status |-> 200, success |-> TRUE, count |-> Len(videos), authRequired |-> FALSE]

\* the catch block of the handler: substring tests on error.message, in order
ErrorResponse(msg) ==
  IF "User not found" \in msg
    THEN [status |-> 404, success |-> FALSE, count |-> 0, authRequired |-> FALSE]
  ELSE IF "No OAuth tokens found" \in msg
    THEN [status |-> 401, success |-> FALSE, count |-> 0, authRequired |-> TRUE]
  ELSE IF "Token validation/refresh failed" \in msg
    THEN [status |-> 401, success |-> FALSE, count |-> 0, authRequired |-> TRUE]
  ELSE IF "invalid_grant" \in msg \/ "unauthorized" \in msg
    THEN [status |-> 401, success |-> FALSE, count |-> 0, authRequired |-> TRUE]
  ELSE IF "quota" \in msg
    THEN [status |-> 429, success |-> FALSE, count |-> 0, authRequired |-> FALSE]
  ELSE [status |-> 500, success |-> FALSE, count |-> 0, authRequired |-> FALSE]

\* the handler answers and the request is over
Respond(r) ==
  /\ response' = r
  /\ responses' = responses + 1
  /\ pc' = "responded"

\* getSubscriptionVideos returns videos; the handler answers with them
Return(videos) ==
  /\ outcome' = [kind |-> "ok", videos |-> videos, msg |-> {}, caught |-> "none"]
  /\ Respond(SuccessResponse(videos))

\* an Error object whose message contains the markers msg
Error(msg) == [hasMessage |-> TRUE, message |-> msg]

\* a thrown value that has no message property, such as a plain object
MessageLess == [hasMessage |-> FALSE, message |-> {}]

\* what the upstream may reject a call with
UpstreamThrown == {Error(msg) : msg \in UpstreamErrors} \cup {MessageLess}

RethrowRaw(error) == error
\* new Error(`Failed to get subscription videos: ${error.message}`): an Error
\* whose message ends with error.message, or with "undefined", which has
\* none of the markers, when error has no message
Rethrow(error) == Error(IF error.hasMessage THEN error.message ELSE {})

\* the catch block of the handler: error.message.includes(...) selects the
\* answer; when error.message is undefined the call throws a TypeError out
\* of the handler and no answer is sent
Catch(error) ==
  IF error.hasMessage
    THEN Respond(ErrorResponse(error.message))
    ELSE pc' = "crashed" /\ UNCHANGED <<response, responses>>

\* the outer catch of getSubscriptionVideos catches error and rethrows it
\* wrapped; the handler catches that
Throw(error) ==
  /\ outcome' = [kind |-> "throw", videos |-> <<>>,
                 msg |-> Rethrow(error).message,
                 caught |-> IF error.hasMessage THEN "Error" ELSE "value"]
  /\ Catch(Rethrow(error))


(***************************************************************************)
(* The handler up to the call of getSubscriptionVideos.                    *)
(***************************************************************************)
\* the handler calls getSubscriptionVideos(token, options), which runs up to
\* its first await: the subscriptions.list call
CallCore(token) ==
  /\ validAccessToken' = token
  /\ subsCalls' = subsCalls + 1
  /\ subscriptionsResponse' = [subscriptionsResponse EXCEPT !.st = "pending"]
  /\ pc' = "subscriptions"
  /\ UNCHANGED <<req, invocation, snapshot, outOfOrder, userDoc, refreshCalls, channelIds, i, searchResults,
                 searchCalls, allVideos, videoIds, detailCalls, detailResults, detailedVideos,
                 detailErrors, outcome, response, responses>>

\* the field checks; a well-formed request goes on to read the user's tokens
Validate ==
  /\ pc = "validate"
  /\ IF ValidationError(req) # "none"
       THEN Respond(BadRequest)
       ELSE pc' = "getUserTokens" /\ UNCHANGED <<response, responses>>
  /\ UNCHANGED <<req, invocation, snapshot, outOfOrder, userDoc, validAccessToken, refreshCalls, subsCalls,
                 coreVars, outcome>>

\* getUserTokens throws: the Firestore read failed (the Admin SDK rejects
\* with an Error), the user document does not exist, or it holds no access
\* token
GetUserTokensFails ==
  /\ pc = "getUserTokens"
  /\ \/ Catch(Error({}))
     \/ ~userDoc.exists /\ Catch(Error({"User not found"}))
     \/ userDoc.exists /\ ~userDoc.hasTokens
          /\ Catch(Error({"No OAuth tokens found"}))
  /\ UNCHANGED <<req, invocation, snapshot, outOfOrder, userDoc, validAccessToken, refreshCalls, subsCalls,
                 coreVars, outcome>>

TokenStillValidAtBuffer ==
  /\ pc = "getUserTokens"
  /\ userDoc.exists /\ userDoc.hasTokens
  /\ userDoc.expiresIn >= bufferTime
  /\ CallCore("stored")

\* ensureValidToken finds the stored token more than 5 minutes from expiry:
\* expiryDate.getTime() - now.getTime() > bufferTime
TokenStillValid ==
  /\ pc = "getUserTokens"
  /\ userDoc.exists /\ userDoc.hasTokens
  /\ userDoc.expiresIn > bufferTime
  /\ CallCore("stored")

\* ensureValidToken finds the token expired or about to: it calls the refresh
\* endpoint of the OAuth service
TokenNeedsRefresh ==
  /\ pc = "getUserTokens"
  /\ userDoc.exists /\ userDoc.hasTokens
  /\ ~(userDoc.expiresIn > bufferTime)
  /\ refreshCalls' = refreshCalls + 1
  /\ pc' = "refresh"
  /\ UNCHANGED <<req, invocation, snapshot, outOfOrder, userDoc, validAccessToken, subsCalls, coreVars, outcome,
                 response, responses>>

\* the refresh call throws or answers with a status that is not ok
RefreshFails ==
  /\ pc = "refresh"
  /\ Catch(Error({"Token validation/refresh failed"}))
  /\ UNCHANGED <<req, invocation, snapshot, outOfOrder, userDoc, validAccessToken, refreshCalls, subsCalls,
                 coreVars, outcome>>

\* the refresh call answers ok; refreshData.accessToken is the credential,
\* present in the body or not
RefreshReturns(hasToken) ==
  /\ pc = "refresh"
  /\ CallCore(IF hasToken THEN "refreshed" ELSE "undefined")

(***************************************************************************)
(* getSubscriptionVideos.                                                  *)
(***************************************************************************)
Unissued == [st |-> "unissued", items |-> <<>>]
Pending == [st |-> "pending", items |-> <<>>]

GroupOfAll(start, n) == (start + 1)..n
\* positions of channelIds.slice(start, start + batchSize)
GroupOf(start, n) == (start + 1)..Min(start + batchSize, n)

IssueGroupNone(start, ids) ==
  /\ searchResults' = [c \in 1..Len(ids) |->
        IF start = 0 THEN Unissued ELSE searchResults[c]]
  /\ searchCalls' = searchCalls

\* batch.map(async (channelId) => ... youtube.search.list(searchParams)):
\* every call of the group is issued before any of them is awaited
IssueGroup(start, ids) ==
  /\ searchResults' = [c \in 1..Len(ids) |->
        IF c \in GroupOf(start, Len(ids)) THEN Pending
        ELSE IF start = 0 THEN Unissued ELSE searchResults[c]]
  /\ searchCalls' = searchCalls \o
        [k \in 1..Cardinality(GroupOf(start, Len(ids))) |->
           SearchParams(ids[start + k], Options(req))]

SubscriptionsFailsSwallowed(error) ==
  /\ pc = "subscriptions"
  /\ subscriptionsResponse' = [subscriptionsResponse EXCEPT !.st = "failed"]
  /\ Return(<<>>)
  /\ UNCHANGED <<req, invocation, snapshot, outOfOrder, userDoc, validAccessToken, refreshCalls, subsCalls,
                 channelIds, i, searchResults, searchCalls,
                 allVideos, videoIds, detailCalls, detailResults, detailedVideos, detailErrors>>

\* subscriptions.list throws; the outer catch rethrows
SubscriptionsFails(error) ==
  /\ pc = "subscriptions"
  /\ subscriptionsResponse' = [subscriptionsResponse EXCEPT !.st = "failed"]
  /\ Throw(error)
  /\ UNCHANGED <<req, invocation, snapshot, outOfOrder, userDoc, validAccessToken, refreshCalls, subsCalls,
                 channelIds, i, searchResults, searchCalls,
                 allVideos, videoIds, detailCalls, detailResults, detailedVideos, detailErrors>>

\* subscriptions.list answers: no subscriptions returns [], otherwise the
\* channel ids are extracted and the first group of searches is issued
SubscriptionsReturns(r) ==
  /\ pc = "subscriptions"
  /\ subscriptionsResponse' = [st |-> "ok", hasItems |-> r.hasItems, items |-> r.items]
  /\ IF NoSubscriptions(r)
       THEN Return(<<>>) /\ UNCHANGED <<channelIds, i, searchResults, searchCalls,
                 allVideos, videoIds, detailCalls, detailResults, detailedVideos, detailErrors>>
     ELSE IF ~r.hasItems
       \* undefined.map(...) is a TypeError, rethrown by the outer catch
       THEN Throw(Error({})) /\ UNCHANGED <<channelIds, i, searchResults, searchCalls,
                 allVideos, videoIds, detailCalls, detailResults, detailedVideos, detailErrors>>
     ELSE /\ channelIds' = r.items
          /\ i' = 0
          /\ IssueGroup(0, r.items)
          /\ pc' = "search"
          /\ UNCHANGED <<allVideos, videoIds, detailCalls, detailResults, detailedVideos,
                         detailErrors, outcome, response, responses>>
  /\ UNCHANGED <<req, invocation, snapshot, outOfOrder, userDoc, validAccessToken, refreshCalls, subsCalls>>

\* the call for the channel at position c ends while the call of a channel
\* listed before it in the running group is still in flight
Overtakes(c) ==
  \E d \in GroupOf(i, Len(channelIds)) : d < c /\ searchResults[d].st = "pending"

SearchReturnsPushes(c, items) ==
  /\ pc = "search"
  /\ searchResults[c].st = "pending"
  /\ searchResults' = [searchResults EXCEPT ![c] = [st |-> "ok", items |-> items]]
  /\ outOfOrder' = (outOfOrder \/ Overtakes(c))
  /\ allVideos' = allVideos \o items
  /\ UNCHANGED <<req, invocation, snapshot, userDoc, pc, validAccessToken, refreshCalls, subsCalls, subscriptionsResponse,
                 channelIds, i, searchCalls, videoIds, detailCalls,
                 detailResults, detailedVideos, detailErrors, outcome, response, responses>>

\* one search.list call of the running group answers
SearchReturns(c, items) ==
  /\ pc = "search"
  /\ searchResults[c].st = "pending"
  /\ searchResults' = [searchResults EXCEPT ![c] = [st |-> "ok", items |-> items]]
  /\ outOfOrder' = (outOfOrder \/ Overtakes(c))
  /\ UNCHANGED <<req, invocation, snapshot, userDoc, pc, validAccessToken, refreshCalls, subsCalls, subscriptionsResponse,
                 channelIds, i, searchCalls, allVideos, videoIds, detailCalls,
                 detailResults, detailedVideos, detailErrors, outcome, response, responses>>

SearchFailsRethrown(c) ==
  /\ pc = "search"
  /\ searchResults[c].st = "pending"
  /\ searchResults' = [searchResults EXCEPT ![c] = [st |-> "failed", items |-> <<>>]]
  /\ Throw(Error({}))
  /\ outOfOrder' = (outOfOrder \/ Overtakes(c))
  /\ UNCHANGED <<req, invocation, snapshot, userDoc, validAccessToken, refreshCalls, subsCalls, subscriptionsResponse,
                 channelIds, i, searchCalls, allVideos, videoIds, detailCalls,
                 detailResults, detailedVideos, detailErrors>>

\* one search.list call of the running group throws: the inner catch logs
\* the error and the channel contributes []
SearchFails(c) ==
  /\ pc = "search"
  /\ searchResults[c].st = "pending"
  /\ searchResults' = [searchResults EXCEPT ![c] = [st |-> "failed", items |-> <<>>]]
  /\ outOfOrder' = (outOfOrder \/ Overtakes(c))
  /\ UNCHANGED <<req, invocation, snapshot, userDoc, pc, validAccessToken, refreshCalls, subsCalls, subscriptionsResponse,
                 channelIds, i, searchCalls, allVideos, videoIds, detailCalls,
                 detailResults, detailedVideos, detailErrors, outcome, response, responses>>

RECURSIVE GroupItems(_, _, _)
\* batchResults.forEach(videos => allVideos.push(...videos)), positions lo..hi
GroupItems(results, lo, hi) ==
  IF lo > hi THEN <<>>
  ELSE results[lo].items \o GroupItems(results, lo + 1, hi)

IssueDetailAhead(ids, start, results) ==
  LET ahead == start + detailBatchSize
  IN IF ahead < Len(ids)
       THEN /\ detailCalls' = detailCalls \o
                   <<Slice(ids, start, ahead), Slice(ids, ahead, ahead + detailBatchSize)>>
            /\ detailResults' = results \o <<Pending, Pending>>
       ELSE /\ detailCalls' = Append(detailCalls, Slice(ids, start, ahead))
            /\ detailResults' = Append(results, Pending)

\* await youtube.videos.list({id: videoIds.slice(start, start + 50).join(',')}):
\* one call is issued, results being the state of the calls before it
IssueDetail(ids, start, results) ==
  /\ detailCalls' = Append(detailCalls, Slice(ids, start, start + detailBatchSize))
  /\ detailResults' = Append(results, Pending)

\* Promise.all of the running group resolves: its results are merged in
\* channel order, then the next group is issued or, after the last group,
\* the exclusion filter runs and the first videos.list call is issued
JoinGroup ==
  /\ pc = "search"
  /\ \A c \in GroupOf(i, Len(channelIds)) : searchResults[c].st \in {"ok", "failed"}
  /\ LET n == Len(channelIds)
         merged == allVideos \o GroupItems(searchResults, i + 1, Min(i + batchSize, n))
         next == i + batchSize
         ids == VideoIdsOf(FilterExcluded(merged, req.excludeList))
     IN /\ allVideos' = merged
        /\ IF next < n
             THEN /\ i' = next
                  /\ IssueGroup(next, channelIds)
                  /\ UNCHANGED <<pc, videoIds, detailCalls, detailResults, outcome,
                                 response, responses>>
           ELSE IF Len(ids) = 0
             THEN /\ Return(<<>>)
                  /\ videoIds' = ids
                  /\ UNCHANGED <<i, searchResults, searchCalls, detailCalls,
                                 detailResults>>
           ELSE /\ videoIds' = ids
                /\ i' = 0
                /\ IssueDetail(ids, 0, detailResults)
                /\ pc' = "details"
                /\ UNCHANGED <<searchResults, searchCalls, outcome, response, responses>>
  /\ UNCHANGED <<req, invocation, snapshot, outOfOrder, userDoc, validAccessToken, refreshCalls, subsCalls, subscriptionsResponse,
                 channelIds, detailedVideos, detailErrors>>

\* the running videos.list call is over and contributed got: the next batch
\* is issued or, after the last one, the result is assembled and returned
DetailSettles(st, got) ==
  LET next == i + detailBatchSize
      detailed == detailedVideos \o got
      settled == [detailResults EXCEPT ![Len(detailResults)] =
                                          [st |-> st, items |-> got]]
  IN /\ detailedVideos' = detailed
     /\ i' = next
     /\ IF next < Len(videoIds)
          THEN /\ IssueDetail(videoIds, next, settled)
               /\ UNCHANGED <<pc, outcome, response, responses>>
          ELSE /\ Return(Assemble(detailed, SliceEnd(Options(req))))
               /\ detailResults' = settled
               /\ UNCHANGED detailCalls

\* the id list of the videos.list call in flight
CurrentBatch == IF detailCalls = <<>> THEN <<>> ELSE detailCalls[Len(detailCalls)]

\* videos.list answers; its items, if any, are appended
DetailReturns(r) ==
  /\ pc = "details"
  /\ DetailSettles("ok", IF r.hasItems THEN r.items ELSE <<>>)
  /\ UNCHANGED <<req, invocation, snapshot, outOfOrder, userDoc, validAccessToken, refreshCalls, subsCalls, subscriptionsResponse,
                 channelIds, searchResults, searchCalls, allVideos, videoIds,
                 detailErrors>>

DetailFailsRethrown ==
  /\ pc = "details"
  /\ detailResults' = [detailResults EXCEPT ![Len(detailResults)] =
                                              [st |-> "failed", items |-> <<>>]]
  /\ Throw(Error({}))
  /\ detailErrors' = detailErrors + 1
  /\ UNCHANGED <<req, invocation, snapshot, outOfOrder, userDoc, validAccessToken, refreshCalls, subsCalls, subscriptionsResponse,
                 channelIds, i, searchResults, searchCalls, allVideos, videoIds,
                 detailCalls, detailedVideos>>

\* videos.list throws: the error is logged and the batch contributes nothing
DetailFails ==
  /\ pc = "details"
  /\ DetailSettles("failed", <<>>)
  /\ detailErrors' = detailErrors + 1
  /\ UNCHANGED <<req, invocation, snapshot, outOfOrder, userDoc, validAccessToken, refreshCalls, subsCalls, subscriptionsResponse,
                 channelIds, searchResults, searchCalls, allVideos, videoIds>>

(***************************************************************************)
(* A second invocation with the same arguments against the same upstream   *)
(* snapshot: every call is answered as the same call of invocation 1 was.  *)
(***************************************************************************)
\* subscriptions.list settles as st; r is its answer, error what it threw
ReplaysSubscriptions(st, r, error) ==
  \/ invocation = 1
  \/ /\ snapshot.subscriptionsResponse.st = st
     /\ st = "ok" => r = [hasItems |-> snapshot.subscriptionsResponse.hasItems,
                          items |-> snapshot.subscriptionsResponse.items]
     /\ st = "failed" => /\ error.message = snapshot.outcome.msg
                         /\ error.hasMessage = (snapshot.outcome.caught = "Error")

\* search.list for the channel at position c settles as st with items
ReplaysSearch(c, st, items) ==
  \/ invocation = 1
  \/ /\ c <= Len(snapshot.searchResults)
     /\ snapshot.searchResults[c] = [st |-> st, items |-> items]

\* the videos.list call in flight settles as st with items; a call that
\* invocation 1 did not make with the same id list may settle any way
ReplaysDetail(st, items) ==
  \/ invocation = 1
  \/ LET k == Len(detailCalls)
     IN (k <= Len(snapshot.detailCalls) /\ snapshot.detailCalls[k] = detailCalls[k]) =>
           snapshot.detailResults[k] = [st |-> st, items |-> items]

StaleLocals ==
  /\ channelIds' = <<>>
  /\ i' = 0
  /\ searchResults' = <<>>
  /\ searchCalls' = <<>>
  /\ videoIds' = <<>>
  /\ detailCalls' = <<>>
  /\ detailResults' = <<>>
  /\ detailedVideos' = <<>>
  /\ detailErrors' = 0
  /\ UNCHANGED allVideos

\* the declarations of getSubscriptionVideos: every collection it fills is a
\* const of the function body, created empty by each invocation
FreshLocals ==
  /\ channelIds' = <<>>
  /\ i' = 0
  /\ searchResults' = <<>>
  /\ searchCalls' = <<>>
  /\ allVideos' = <<>>
  /\ videoIds' = <<>>
  /\ detailCalls' = <<>>
  /\ detailResults' = <<>>
  /\ detailedVideos' = <<>>
  /\ detailErrors' = 0

\* second invocations are explored after first ones that selected at most
\* one channel, or the first number of channels that needs two detail batches
Replayable(n) == n <= 1 \/ n = detailBatchSize \div perChannelCap + 1

\* getSubscriptionVideos has returned or thrown and is called again with the
\* same arguments, for a request of its own
Reinvoke ==
  /\ pc = "responded"
  /\ invocation = 1
  /\ outcome.kind # "none"
  /\ Replayable(Len(channelIds))
  /\ invocation' = 2
  /\ snapshot' = [subscriptionsResponse |-> subscriptionsResponse,
                  searchResults |-> searchResults, detailCalls |-> detailCalls,
                  detailResults |-> detailResults, outcome |-> outcome]
  /\ FreshLocals
  /\ subsCalls' = 1
  /\ subscriptionsResponse' = [st |-> "pending", hasItems |-> FALSE, items |-> <<>>]
  /\ pc' = "subscriptions"
  /\ outcome' = NoOutcome
  /\ response' = NoResponse
  /\ responses' = 0
  /\ outOfOrder' = FALSE
  /\ UNCHANGED <<req, userDoc, validAccessToken, refreshCalls>>

Next ==
  \/ Validate
  \/ GetUserTokensFails
  \/ TokenStillValid
  \/ TokenNeedsRefresh
  \/ RefreshFails
  \/ \E hasToken \in BOOLEAN : RefreshReturns(hasToken)
  \/ \E error \in UpstreamThrown :
       ReplaysSubscriptions("failed", <<>>, error) /\ SubscriptionsFails(error)
  \/ \E r \in SubscriptionResponses :
       ReplaysSubscriptions("ok", r, Error({})) /\ SubscriptionsReturns(r)
  \/ \E c \in 1..Len(channelIds) :
       \E items \in SearchResponses(c, SearchLimit(req.maxResults), Len(channelIds)) :
         ReplaysSearch(c, "ok", items) /\ SearchReturns(c, items)
  \/ \E c \in 1..Len(channelIds) :
       MayFail(c, Len(channelIds)) /\ ReplaysSearch(c, "failed", <<>>) /\ SearchFails(c)
  \/ JoinGroup
  \/ pc = "details" /\ ReplaysDetail("failed", <<>>) /\ DetailFails
  \/ pc = "details" /\ \E r \in DetailResponses(CurrentBatch, Len(channelIds)) :
                              /\ ReplaysDetail("ok", IF r.hasItems THEN r.items ELSE <<>>)
                              /\ DetailReturns(r)

Spec == Init /\ [][Next]_vars

\* the requests whose behaviours are followed to their end: the base request
\* (for every user document), the one that asks every channel for a full
\* page, and the malformed ones
FairRequests ==
  {BaseRequest, [BaseRequest EXCEPT !.maxResults = perChannelCap]}
  \cup MalformedRequests

InitFair == Init /\ req \in FairRequests

\* every upstream call in flight eventually answers or fails, and the event
\* loop runs every continuation that is ready
FairSpec == InitFair /\ [][Next]_vars /\ WF_vars(Next)

NextTwice == Next \/ Reinvoke

SpecTwice == Init /\ [][NextTwice]_vars


(***************************************************************************)
(* Properties.                                                             *)
(***************************************************************************)
Returned == pc = "responded" /\ outcome.kind = "ok"

\* the request's maxResults is a number between 1 and 100
MaxResultsInRange ==
  ~req.maxResultsIsNaN /\ req.maxResults \in MinMaxResults..MaxMaxResults

Ids(videos) == {videos[k].videoId : k \in 1..Len(videos)}

\* the elements of a sequence
Range(s) == {s[k] : k \in 1..Len(s)}

\* the video ids among the entries of a list of ids
VideoIdsIn(ids) == Range(ids) \ {undefined}

Settled == {"ok", "failed"}

\* every selected channel's search.list call is over
AllSettled ==
  /\ channelIds # <<>>
  /\ \A c \in 1..Len(channelIds) : searchResults[c].st \in Settled

\* the items of the channels whose call succeeded, in channel order
RECURSIVE ItemsOfSucceeded(_, _)
ItemsOfSucceeded(results, n) ==
  IF n = 0 THEN <<>>
  ELSE ItemsOfSucceeded(results, n - 1) \o
       (IF results[n].st = "ok" THEN results[n].items ELSE <<>>)

CeilDiv(a, b) == (a + b - 1) \div b

\* C1: a successful call with maxResults in 1..100 returns at most maxResults
\* videos, and the response's count is the length of the returned list.
C1_CountWithinMaxResults ==
  (Returned /\ MaxResultsInRange) =>
     /\ Len(outcome.videos) <= req.maxResults
     /\ response.status = 200
     /\ response.count = Len(outcome.videos)

\* a call that received more records than maxResults and returned maxResults
C1_Witness ==
  /\ Returned
  /\ Len(detailedVideos) > req.maxResults
  /\ Len(outcome.videos) = req.maxResults
  /\ response.count = req.maxResults

\* C2: no video id of the exclusion list is the videoId of a returned video.
C2_NoExcludedReturned ==
  Returned => Ids(outcome.videos) \cap req.excludeList = {}

\* a call that found an excluded id and returned other videos
C2_Witness ==
  /\ Returned
  /\ \E k \in 1..Len(allVideos) : VideoIdOf(allVideos[k]) \in req.excludeList
  /\ outcome.videos # <<>>

\* C3: the returned list is non-increasing in publishedAt.
C3_SortedByDateDesc ==
  Returned =>
    \A k \in 1..(Len(outcome.videos) - 1) :
       DateOf(outcome.videos[k].publishedAt) >= DateOf(outcome.videos[k + 1].publishedAt)

\* a call whose records arrived out of order and that returned two dates
C3_Witness ==
  /\ Returned
  /\ \E k \in 1..(Len(detailedVideos) - 1) :
       DateOf(detailedVideos[k].publishedAt) < DateOf(detailedVideos[k + 1].publishedAt)
  /\ \E k \in 1..(Len(outcome.videos) - 1) :
       DateOf(outcome.videos[k].publishedAt) > DateOf(outcome.videos[k + 1].publishedAt)

\* C4: the video ids of the returned list are pairwise distinct.
C4_DistinctVideoIds ==
  Returned =>
    \A j, k \in 1..Len(outcome.videos) :
       j # k => outcome.videos[j].videoId # outcome.videos[k].videoId

\* C5: search.list is called for at most maxChannels distinct channels.
C5_AtMostMaxChannelsQueried ==
  Cardinality({searchCalls[k].channelId : k \in 1..Len(searchCalls)}) <= req.maxChannels

\* C6: a failed search.list call never makes the invocation throw, and once
\* all groups are merged the found videos are those of the channels that
\* succeeded, in channel order, all of them but the excluded ones going on to
\* the detail step, as if the failed channels had answered with no items.
C6_ChannelFailureIsolated ==
  /\ (\E c \in 1..Len(channelIds) : searchResults[c].st = "failed") =>
        outcome.kind # "throw"
  /\ (AllSettled /\ pc \in {"details", "responded"}) =>
        /\ outcome.kind # "throw"
        /\ allVideos = ItemsOfSucceeded(searchResults, Len(channelIds))
        /\ videoIds = VideoIdsOf(
                        SelectSeq(ItemsOfSucceeded(searchResults, Len(channelIds)),
                                  LAMBDA v : VideoIdOf(v) \notin req.excludeList))

\* a call with a failed channel that returned a video of a succeeding one
C6_Witness ==
  /\ Returned
  /\ \E c \in 1..Len(channelIds) : searchResults[c].st = "failed"
  /\ \E c \in 1..Len(channelIds) :
       /\ searchResults[c].st = "ok"
       /\ \E k \in 1..Len(searchResults[c].items) :
            VideoIdOf(searchResults[c].items[k]) \in Ids(outcome.videos)

\* C7: with N channels selected, 1 + N + ceil(D/50) upstream calls are made,
\* D the number of distinct non-excluded video ids found.
C7_QuotaUnits ==
  (Returned /\ channelIds # <<>>) =>
     subsCalls + Len(searchCalls) + Len(detailCalls) =
        1 + Len(channelIds)
          + CeilDiv(Cardinality({videoIds[k] : k \in 1..Len(videoIds)}), detailBatchSize)

\* C8: when subscriptions.list fails the invocation throws and the request is
\* answered with an error, with no search.list and no videos.list call made.
C8_EnumerationFailureFailsFast ==
  subscriptionsResponse.st = "failed" =>
     /\ outcome.kind = "throw"
     /\ ~response.success /\ response.status \in {401, 429, 500}
     /\ searchCalls = <<>>
     /\ detailCalls = <<>>

\* a request whose enumeration failed on a rejected credential
C8_Witness ==
  /\ subscriptionsResponse.st = "failed"
  /\ outcome.kind = "throw"
  /\ "unauthorized" \in outcome.msg
  /\ response.status = 401

\* C9: when every search.list call fails the invocation returns an empty
\* list, the response is a success with count 0, and videos.list is not called.
C9_AllChannelsFailReturnsEmpty ==
  (AllSettled /\ pc = "responded"
     /\ \A c \in 1..Len(channelIds) : searchResults[c].st = "failed") =>
     /\ outcome.kind = "ok"
     /\ outcome.videos = <<>>
     /\ response.success /\ response.status = 200 /\ response.count = 0
     /\ detailCalls = <<>>

\* a request with two channels, both failing, that has been answered
C9_Witness ==
  /\ pc = "responded"
  /\ Len(channelIds) >= 2
  /\ \A c \in 1..Len(channelIds) : searchResults[c].st = "failed"
  /\ response.status = 200

\* C10: when subscriptions.list reports no subscriptions (items missing or
\* empty) the invocation returns an empty list with no further upstream call.
C10_NoSubscriptionsReturnsEmpty ==
  (subscriptionsResponse.st = "ok" /\
     (~subscriptionsResponse.hasItems \/ subscriptionsResponse.items = <<>>)) =>
     /\ Returned
     /\ outcome.videos = <<>>
     /\ response.success /\ response.count = 0
     /\ searchCalls = <<>>
     /\ detailCalls = <<>>

\* an answered request whose enumeration response had no items field
C10_Witness ==
  /\ subscriptionsResponse.st = "ok"
  /\ ~subscriptionsResponse.hasItems
  /\ Returned
  /\ response.status = 200

\* the records received from the videos.list calls that succeeded, in order
RECURSIVE ItemsOfOkBatches(_, _)
ItemsOfOkBatches(results, n) ==
  IF n = 0 THEN <<>>
  ELSE ItemsOfOkBatches(results, n - 1) \o
       (IF results[n].st = "ok" THEN results[n].items ELSE <<>>)

\* C11: a failed videos.list call never makes the invocation throw and is not
\* retried: the calls made are the consecutive slices of 50 of the id list,
\* each once, the later ones issued after a failure too; a returned video has
\* a record from a call that succeeded, and every such record is returned
\* unless maxResults records at least as recent are.
C11_DetailFailureIsolated ==
  /\ detailErrors > 0 => outcome.kind # "throw"
  /\ detailErrors = Cardinality({k \in 1..Len(detailResults) :
                                   detailResults[k].st = "failed"})
  /\ \A k \in 1..Len(detailCalls) :
       detailCalls[k] = Slice(videoIds, (k - 1) * detailBatchSize, k * detailBatchSize)
  /\ (Returned /\ videoIds # <<>> /\ MaxResultsInRange) =>
       LET ok == ItemsOfOkBatches(detailResults, Len(detailResults))
       IN /\ Len(detailCalls) = CeilDiv(Len(videoIds), detailBatchSize)
          /\ Ids(outcome.videos) \subseteq {ok[k].id : k \in 1..Len(ok)}
          /\ Len(outcome.videos) = Min(req.maxResults, Len(ok))
          /\ \A k \in 1..Len(ok) :
               \/ ok[k].id \in Ids(outcome.videos)
               \/ /\ Len(outcome.videos) = req.maxResults
                  /\ \A j \in 1..Len(outcome.videos) :
                       DateOf(outcome.videos[j].publishedAt) >= DateOf(ok[k].publishedAt)

\* a call whose first videos.list call failed and that returned a video
\* whose record came from the second
C11_Witness ==
  /\ Returned
  /\ Len(detailResults) >= 2
  /\ detailResults[1].st = "failed"
  /\ detailResults[2].st = "ok"
  /\ \E k \in 1..Len(detailResults[2].items) :
       detailResults[2].items[k].id \in Ids(outcome.videos)
  /\ \E k \in 1..Len(detailCalls[1]) : detailCalls[1][k] \notin Ids(outcome.videos)


\* the search.list calls in flight
PendingSearches == {c \in 1..Len(searchResults) : searchResults[c].st = "pending"}

\* C12: at most 10 search.list calls are in flight, the calls are issued in
\* the order of the channel list, and a call for a channel of one group of
\* ten is issued only when every call of the groups before is over.
C12_GroupedFanOut ==
  /\ Cardinality(PendingSearches) <= batchSize
  /\ Len(searchCalls) =
       Cardinality({c \in 1..Len(searchResults) : searchResults[c].st # "unissued"})
  /\ \A k \in 1..Len(searchCalls) : searchCalls[k].channelId = channelIds[k]
  /\ \A c \in 1..Len(searchResults) :
       searchResults[c].st # "unissued" =>
         \A d \in 1..(((c - 1) \div batchSize) * batchSize) :
            searchResults[d].st \in Settled

\* the call of the eleventh channel in flight, the first ten being over
C12_Witness ==
  /\ Len(channelIds) > batchSize
  /\ PendingSearches = {batchSize + 1}
  /\ Len(searchCalls) = batchSize + 1
  /\ Len(allVideos) > 0


\* the videos.list calls in flight
PendingDetails == {k \in 1..Len(detailResults) : detailResults[k].st = "pending"}

\* C13: at most one videos.list call is in flight, a call is issued only when
\* every call before it is over, and none is issued while a search.list call
\* is in flight.
C13_DetailSequential ==
  /\ Len(detailCalls) = Len(detailResults)
  /\ Cardinality(PendingDetails) <= 1
  /\ \A k \in 1..(Len(detailResults) - 1) : detailResults[k].st \in Settled
  /\ detailCalls # <<>> => (AllSettled /\ PendingSearches = {})

\* the second videos.list call in flight, the first having answered
C13_Witness ==
  /\ Len(detailCalls) = 2
  /\ detailResults[1].st = "ok"
  /\ PendingDetails = {2}
  /\ pc = "details"


\* C14: no id of the exclusion list is in the id list of a videos.list call,
\* and when every id found is excluded no videos.list call is made.
C14_ExclusionBeforeDetail ==
  /\ \A k \in 1..Len(detailCalls) : \A j \in 1..Len(detailCalls[k]) :
       detailCalls[k][j] \notin req.excludeList
  /\ (AllSettled /\
      LET found == ItemsOfSucceeded(searchResults, Len(channelIds))
      IN \A k \in 1..Len(found) : VideoIdOf(found[k]) \in req.excludeList) =>
       detailCalls = <<>>

\* an answered request that found videos, all of them excluded, and made no
\* videos.list call
C14_Witness ==
  /\ Returned
  /\ allVideos # <<>>
  /\ \A k \in 1..Len(allVideos) : VideoIdOf(allVideos[k]) \in req.excludeList
  /\ detailCalls = <<>>
  /\ response.count = 0


\* every videos.list call answered and every id asked for has a record
AllDetailsResolved ==
  /\ \A k \in 1..Len(detailResults) : detailResults[k].st = "ok"
  /\ VideoIdsIn(videoIds) \subseteq {detailedVideos[k].id : k \in 1..Len(detailedVideos)}

\* C15: the returned list is no longer than min(maxResults, number of
\* distinct video ids found), and when k < maxResults distinct ids are left
\* after the exclusion filter and all their records resolve, exactly k videos
\* are returned.
C15_LengthWithinDistinctFound ==
  (Returned /\ MaxResultsInRange) =>
     /\ Len(outcome.videos) <=
           Min(req.maxResults, Cardinality(VideoIdsIn(VideoIdsOf(allVideos))))
     /\ (Cardinality(VideoIdsIn(videoIds)) < req.maxResults /\ AllDetailsResolved) =>
           Len(outcome.videos) = Cardinality(VideoIdsIn(videoIds))

\* no video id is found twice
NoIdFoundTwice ==
  LET found == SelectSeq(VideoIdsOf(allVideos), LAMBDA v : v # undefined)
  IN Cardinality(Range(found)) = Len(found)

\* C15 for the calls in which no video id was found twice
C15_HoldsWithoutDuplicates ==
  NoIdFoundTwice => C15_LengthWithinDistinctFound


\* the video ids of a returned list, in order
IdSeq(videos) == [k \in 1..Len(videos) |-> videos[k].videoId]

\* C16: a second invocation with the same arguments against the same upstream
\* snapshot ends as the first did, returning the same sequence of video ids.
C16_SameResultTwice ==
  (invocation = 2 /\ pc = "responded") =>
     /\ outcome.kind = snapshot.outcome.kind
     /\ outcome.msg = snapshot.outcome.msg
     /\ IdSeq(outcome.videos) = IdSeq(snapshot.outcome.videos)

\* a second invocation that returned two videos after a first one with a
\* failed videos.list call
C16_Witness ==
  /\ invocation = 2
  /\ Returned
  /\ Len(outcome.videos) >= 2
  /\ \E k \in 1..Len(snapshot.detailResults) : snapshot.detailResults[k].st = "failed"


\* a body the claim calls malformed
Malformed(r) ==
  \/ ~r.userId
  \/ r.maxResultsIsNaN
  \/ r.maxResults \notin MinMaxResults..MaxMaxResults
  \/ r.publishedAfter = "invalid"
  \/ ~r.isArray

\* C17: a malformed request (userId missing, maxResults not a number between
\* 1 and 100, a date filter that does not parse, excludeList not an array) is
\* answered 400 before any token lookup, token refresh or YouTube call.
C17_MalformedRejectedFirst ==
  Malformed(req) =>
     /\ pc \in {"validate", "responded"}
     /\ pc = "responded" => response.status = 400
     /\ validAccessToken = "none"
     /\ refreshCalls = 0
     /\ subsCalls = 0 /\ searchCalls = <<>> /\ detailCalls = <<>>

\* C17 for the malformed requests whose maxResults is a number
C17_HoldsForNumbers ==
  ~req.maxResultsIsNaN => C17_MalformedRejectedFirst

\* C18: every search.list call carries the request's date cutoff as its
\* publication-date bound when the request has one, and none when it has not.
C18_CutoffCarried ==
  \A k \in 1..Len(searchCalls) : searchCalls[k].publishedBefore = req.publishedAfter

\* C18 for the requests without a date cutoff
C18_HoldsWithoutCutoff ==
  req.publishedAfter = "absent" => C18_CutoffCarried


\* the search results received that are not videos, and the ids of the
\* videos among the results received
ItemsReceived == UNION {Range(searchResults[c].items) : c \in 1..Len(searchResults)}
NonVideoItems == {x \in ItemsReceived : x.kind # "video"}
FoundVideoIds == {x.videoId : x \in ItemsReceived \ NonVideoItems}

NoCallFailed ==
  /\ subscriptionsResponse.st = "ok"
  /\ \A c \in 1..Len(searchResults) : searchResults[c].st = "ok"
  /\ \A k \in 1..Len(detailResults) : detailResults[k].st = "ok"

\* the ids found, minus the exclusion list, for which videos.list returned a
\* record
Eligible ==
  (FoundVideoIds \ req.excludeList) \cap {detailedVideos[k].id : k \in 1..Len(detailedVideos)}

\* the date of the record videos.list returned for id v
DateOfId(v) ==
  DateOf((CHOOSE r \in Range(detailedVideos) : r.id = v).publishedAt)

\* C20: when no call fails, the set of returned video ids is the maxResults
\* most recent (by publishedAt) of the ids found, minus the exclusion list,
\* that videos.list returned a record for.
C20_MostRecentEligible ==
  (Returned /\ NoCallFailed /\ MaxResultsInRange) =>
     LET S == Ids(outcome.videos)
     IN /\ S \subseteq Eligible
        /\ Cardinality(S) = Min(req.maxResults, Cardinality(Eligible))
        /\ \A v \in S : \A w \in Eligible \ S : DateOfId(v) >= DateOfId(w)

\* C20 for the calls in which no video id was found twice
C20_HoldsWithoutDuplicates ==
  NoIdFoundTwice => C20_MostRecentEligible


\* the enumeration failed because the upstream reported an exhausted quota
QuotaFailure ==
  subscriptionsResponse.st = "failed" /\ "quota" \in outcome.msg

\* the enumeration failed because the credential was invalid or unauthorized
CredentialFailure ==
  /\ subscriptionsResponse.st = "failed"
  /\ outcome.msg \cap {"invalid_grant", "unauthorized", "Invalid Credentials"} # {}

\* C21: an enumeration that fails on an exhausted quota is answered 429, one
\* that fails on an invalid or unauthorized credential is answered 401, and
\* the enumeration call is not retried.
C21_EnumerationErrorStatus ==
  /\ QuotaFailure => (response.status = 429 /\ subsCalls = 1)
  /\ CredentialFailure => (response.status = 401 /\ subsCalls = 1)

\* C21 for the failures whose message has one of the substrings the handler
\* looks for
C21_HoldsForKnownMessages ==
  "Invalid Credentials" \notin outcome.msg => C21_EnumerationErrorStatus


\* C22: with channel budget B = maxChannels, one subscriptions.list call is
\* made, it asks for at most 2B entries, and the channels queried are the
\* first B channel ids of its answer, in the order of the answer.
C22_FirstBChannels ==
  subsCalls >= 1 =>
     /\ subsCalls = 1
     /\ subscriptionsMaxResults <= 2 * req.maxChannels
     /\ \A k \in 1..Len(searchCalls) :
          /\ k <= req.maxChannels
          /\ searchCalls[k].channelId = subscriptionsResponse.items[k]
     /\ AllSettled =>
          Len(searchCalls) = Min(req.maxChannels, Len(subscriptionsResponse.items))

\* what C22 says of the number and the order of the calls, without the budget
C22_HoldsWithoutBudget ==
  subsCalls >= 1 =>
     /\ subsCalls = 1
     /\ \A k \in 1..Len(searchCalls) :
          searchCalls[k].channelId = subscriptionsResponse.items[k]
     /\ AllSettled => Len(searchCalls) = Len(subscriptionsResponse.items)


\* the id lists of the first n videos.list calls, one after the other
RECURSIVE ConcatBatches(_, _)
ConcatBatches(calls, n) ==
  IF n = 0 THEN <<>> ELSE ConcatBatches(calls, n - 1) \o calls[n]

C24_PerChannelLimit ==
  MaxResultsInRange =>
     \A k \in 1..Len(searchCalls) :
        /\ ~searchCalls[k].maxResultsIsNaN
        /\ searchCalls[k].maxResults =
              (IF req.maxResults < perChannelCap THEN req.maxResults ELSE perChannelCap)
        /\ searchCalls[k].maxResults \in 1..perChannelCap

\* a request with maxResults above 10 whose search.list calls ask for 10
C24_Witness ==
  /\ req.maxResults > perChannelCap
  /\ searchCalls # <<>>
  /\ \A k \in 1..Len(searchCalls) : searchCalls[k].maxResults = perChannelCap
  /\ Returned /\ Len(outcome.videos) = req.maxResults


\* the place of the k-th record received in the list ordered by date, most
\* recent first, records of equal date in the order received
StableRank(videos, k) ==
  1 + Cardinality({j \in 1..Len(videos) :
         \/ DateOf(videos[j].publishedAt) > DateOf(videos[k].publishedAt)
         \/ /\ DateOf(videos[j].publishedAt) = DateOf(videos[k].publishedAt)
            /\ j < k})

\* C25: the returned list is the first maxResults elements of the records
\* received ordered by publishedAt descending, records with equal publishedAt
\* keeping the order in which they were received.
C25_StableSortThenTruncate ==
  (Returned /\ MaxResultsInRange) =>
     /\ Len(outcome.videos) = Min(req.maxResults, Len(detailedVideos))
     /\ \A k \in 1..Len(detailedVideos) :
          LET r == StableRank(detailedVideos, k)
          IN r <= Len(outcome.videos) =>
               /\ outcome.videos[r].videoId = detailedVideos[k].id
               /\ outcome.videos[r].publishedAt = detailedVideos[k].publishedAt

\* a truncated result that holds two different videos of equal publishedAt,
\* received after a more recent video that was returned too
C25_Witness ==
  /\ Returned
  /\ Len(detailedVideos) > Len(outcome.videos)
  /\ \E j, k \in 1..Len(outcome.videos) :
       /\ j < k
       /\ outcome.videos[j].publishedAt = outcome.videos[k].publishedAt
       /\ outcome.videos[j].videoId # outcome.videos[k].videoId
  /\ \E k \in 2..Len(detailedVideos) :
       /\ detailedVideos[k].id = outcome.videos[1].videoId
       /\ DateOf(detailedVideos[k].publishedAt) > DateOf(detailedVideos[1].publishedAt)


\* C26: whatever the order in which the search.list calls of a group end,
\* the found videos are the items of the channels in channel order: those of
\* the groups before the running one while a group runs, those of all
\* channels afterwards.
C26_MergedInChannelOrder ==
  /\ pc = "search" => allVideos = ItemsOfSucceeded(searchResults, i)
  /\ (pc \in {"details", "responded"} /\ AllSettled) =>
        allVideos = ItemsOfSucceeded(searchResults, Len(channelIds))

\* two channels both answered with videos, the second before the first, and
\* the invocation returned videos
C26_Witness ==
  /\ Returned
  /\ outOfOrder
  /\ Len(channelIds) = 2
  /\ searchResults[1].items # <<>> /\ searchResults[2].items # <<>>
  /\ searchResults[1].items # searchResults[2].items
  /\ outcome.videos # <<>>


\* the request passed validation and was answered without
\* getSubscriptionVideos being called: getUserTokens or ensureValidToken threw
TokenStepFailed ==
  /\ invocation = 1
  /\ pc = "responded"
  /\ ValidationError(req) = "none"
  /\ outcome.kind = "none"

\* the stored token is used with no refresh call exactly when it expires more
\* than 5 minutes from now; otherwise one refresh call is made, before any
\* YouTube call
TokenUseFollowsExpiry ==
  /\ refreshCalls <= 1
  /\ pc = "refresh" => (refreshCalls = 1 /\ subsCalls = 0)
  /\ subsCalls >= 1 =>
       IF userDoc.expiresIn > bufferTime
         THEN validAccessToken = "stored" /\ refreshCalls = 0
         ELSE validAccessToken # "stored" /\ refreshCalls = 1

Terminated == outcome.kind # "none"

\* C28: every invocation of getSubscriptionVideos eventually returns or
\* throws, having made one subscriptions.list call, one search.list call per
\* selected channel and one videos.list call per batch of 50 ids, and no more.
C28_TerminatesAfterOnePagePerCall ==
  /\ (subsCalls >= 1) ~> Terminated
  /\ [](Terminated =>
          /\ subsCalls = 1
          /\ Len(searchCalls) = Len(channelIds)
          /\ \A k \in 1..Len(searchCalls) : searchCalls[k].channelId = channelIds[k]
          /\ Len(detailCalls) = CeilDiv(Len(videoIds), detailBatchSize)
          /\ PendingSearches = {} /\ PendingDetails = {})

\* an invocation that returned after 1 + 11 + 3 calls
C28_Witness ==
  /\ Returned
  /\ subsCalls = 1
  /\ Len(searchCalls) = batchSize + 1
  /\ Len(detailCalls) = 3


\* C29: whenever the handler has called getSubscriptionVideos, the credential
\* it passed is a non-empty access token: the stored token, used without a
\* refresh call, or the token of a successful refresh response; never a
\* missing one.
C29_CredentialNonEmpty ==
  subsCalls >= 1 =>
    \/ validAccessToken = "stored" /\ refreshCalls = 0
    \/ validAccessToken = "refreshed" /\ refreshCalls = 1

\* what does hold: the credential passed is the stored token or whatever the
\* refresh response carried as accessToken, present or not
C29_HoldsUpToMissingToken ==
  subsCalls >= 1 =>
    \/ validAccessToken = "stored" /\ refreshCalls = 0
    \/ validAccessToken \in {"refreshed", "undefined"} /\ refreshCalls = 1


\* C30: every request is answered exactly once on every path (validation
\* rejection, token failure, upstream failure with any thrown value, with or
\* without a message, or success): never a second answer, and eventually
\* one.
C30_ExactlyOneResponse ==
  /\ [](responses <= 1)
  /\ []((pc = "responded") <=> (responses = 1))
  /\ <>[](responses = 1)

\* subscriptions.list rejected with a value that has no message and the
\* request was answered once, with status 500
C30_Witness ==
  /\ subscriptionsResponse.st = "failed"
  /\ outcome.caught = "value"
  /\ responses = 1
  /\ response.status = 500


==========================================================================
